---- MODULE Spec2Model ----
(***************************************************************************)
(* Model of the OTC prediction dashboard backend: the MongoDB session      *)
(* cache (SessionData / SessionManager), the data endpoints, the screen    *)
(* capture loop (ScreenCaptureService) and prediction grading              *)
(* (PredictionService.verifyPrediction).                                   *)
(*                                                                         *)
(* Time is in milliseconds, as in the code (Date.now()).                   *)
(***************************************************************************)
EXTENDS Integers, Sequences, FiniteSets, Bags, TLC

VARIABLES
    now,               \* Date.now()
    quotexLoggedIn,    \* whether the browser session is logged in on the platform
    sessions,          \* collection 'sessiondata', keyed by sessionId
    validationResult,  \* what the last validateQuotexSession call returned
    response,          \* what the last data endpoint answered
    candles,           \* collection 'candledata', in insertion order
    predictions,       \* collection 'predictions', in insertion order
    isCapturing,       \* ScreenCaptureService.isCapturing
    captureInterval,   \* ScreenCaptureService.captureInterval (0 = null)
    timers,            \* live setInterval timers: id -> an interval has elapsed since
                       \* the timer was set or last fired
    page,              \* ScreenCaptureService.page: "null" or "open"
    svcSessionId,      \* ScreenCaptureService.sessionId ("" = null)
    cycles,            \* bag of the captureAndProcess calls that have not returned
    cleanupPc,         \* position of a cleanup() call: "idle" or "closing"
    stopped,           \* stopCapture has returned and startCapture was not called since
    lastResult,        \* what the captureAndProcess call that returned last gave back:
                       \* "failed" or "failed_fallback" (null from its catch), or
                       \* whether its candleData is a "new" document or a "duplicate";
                       \* "none" before any returned
    call,              \* the last direct call of a function of PredictionService or
                       \* of extractCandleData: its arguments and what it returned
    captureService,    \* routes/data.js: the global captureService, the number of
                       \* a ScreenCaptureService instance (0 = null)
    services,          \* the ScreenCaptureService instances the routes constructed,
                       \* in the order of their construction
    requests           \* the /start-capture and /stop-capture handlers in progress:
                       \* the await each one is at

vars == <<now, quotexLoggedIn, sessions, validationResult, response, candles,
          predictions, isCapturing, captureInterval, timers, page,
          svcSessionId, cycles, cleanupPc, stopped, lastResult, call,
          captureService, services, requests>>

sessionVars == <<sessions, validationResult, response>>
captureVars == <<isCapturing, captureInterval, timers, page, svcSessionId,
                 cycles, cleanupPc, stopped, lastResult>>
routeVars == <<captureService, services, requests>>

-----------------------------------------------------------------------------
(* Bounds *)

MaxHours == 4          \* the session clock runs 0 .. MaxHours hours
MaxAttempts == 2       \* cap on validationAttempts
MaxHistory == 2        \* cap on the length of validationHistory
MaxRequests == 2       \* route handlers of the capture routes in progress
MaxServices == 2       \* ScreenCaptureService instances ever constructed
MaxLiveTimers == 2     \* live interval timers of one instance
MaxFailures == 3       \* cap on the count of failed cycles in a row

-----------------------------------------------------------------------------
(* Constants of the code *)

HourMs == 60 * 60 * 1000
maxAge == 2 * 60 * 60 * 1000            \* needsRevalidation
ExpiryMs == 24 * 60 * 60 * 1000         \* expiresAt default, refreshExpiration(24)

SessionIds == {"s1"}
NoSessionId == ""                        \* request without a sessionId
Statuses == {"active", "expired", "invalid", "pending"}
TradingPair == "EUR/USD OTC"

-----------------------------------------------------------------------------
(* Session cache: SessionData model *)

\* findValidatedSession with the expiresAt condition of the query left out
findValidatedSession_NoExpiry(sid) ==
    IF /\ sid \in DOMAIN sessions
       /\ sessions[sid].isValidated
       /\ sessions[sid].status = "active"
    THEN {sessions[sid]}
    ELSE {}

\* SessionData.findValidatedSession: the stored record, if it passes the query
findValidatedSession(sid) ==
    IF /\ sid \in DOMAIN sessions
       /\ sessions[sid].isValidated
       /\ sessions[sid].status = "active"
       /\ sessions[sid].expiresAt > now
    THEN {sessions[sid]}
    ELSE {}

\* sessionDataSchema.methods.needsRevalidation
needsRevalidation(rec) ==
    \/ ~rec.isValidated
    \/ now - rec.lastValidationCheck > maxAge
    \/ rec.status # "active"

\* SessionData.updateActivity
updateActivity(rec) ==
    [rec EXCEPT !.lastActivity = now,
                !.validationAttempts = rec.validationAttempts + 1]

\* sessionDataSchema.methods.refreshExpiration(hours)
refreshExpiration(rec, hours) ==
    [rec EXCEPT !.expiresAt = now + hours * HourMs, !.lastActivity = now]

\* the document an upsert inserts: schema defaults
NewSessionDefaults ==
    [isValidated |-> FALSE, status |-> "pending", lastValidationCheck |-> now,
     lastActivity |-> now, expiresAt |-> now + ExpiryMs,
     validationAttempts |-> 0, validationHistory |-> <<>>]

\* SessionData.storeValidatedSession: findOneAndUpdate with upsert
storeValidatedSession(sid) ==
    LET old == IF sid \in DOMAIN sessions THEN sessions[sid] ELSE NewSessionDefaults
    IN [old EXCEPT !.isValidated = TRUE,
                   !.status = "active",
                   !.lastValidationCheck = now,
                   !.lastActivity = now,
                   !.validationHistory =
                       Append(old.validationHistory,
                              [success |-> TRUE, method |-> "puppeteer"])]

\* validationHistory.method: the values the schema admits
ValidationMethodEnum == {"puppeteer", "cache", "manual"}

\* sessionDataSchema.methods.invalidate: the document it hands to save()
invalidate(rec) ==
    [rec EXCEPT !.isValidated = FALSE,
                !.status = "invalid",
                !.validationHistory =
                    Append(rec.validationHistory,
                           [success |-> FALSE, method |-> "system"])]

\* Document.save() validates the document against the schema before it
\* writes it
saveAccepts(rec) ==
    \A i \in DOMAIN rec.validationHistory :
        rec.validationHistory[i].method \in ValidationMethodEnum

PutSession(sid, rec) ==
    [x \in DOMAIN sessions \cup {sid} |-> IF x = sid THEN rec ELSE sessions[x]]

\* the idle bound of cleanupExpiredSessions: 7 days
SevenDaysMs == 7 * 24 * 60 * 60 * 1000

\* a filter that leaves out the status condition of the idle clause
cleanupFilter_AnyStatus(rec) ==
    \/ rec.expiresAt < now
    \/ rec.lastActivity < now - SevenDaysMs

\* cleanupExpiredSessions: the filter of its deleteMany
cleanupFilter(rec) ==
    \/ rec.expiresAt < now
    \/ /\ rec.lastActivity < now - SevenDaysMs
       /\ rec.status # "active"

\* cleanupExpiredSessions: result.deletedCount
deletedCount ==
    Cardinality({sid \in DOMAIN sessions : cleanupFilter(sessions[sid])})

\* SessionData.cleanupExpiredSessions: the collection deleteMany leaves
cleanupExpiredSessions ==
    [sid \in {x \in DOMAIN sessions : ~cleanupFilter(sessions[x])} |-> sessions[sid]]

\* the TTL index on expiresAt (expireAfterSeconds: 0): the collection the
\* TTL monitor of the database leaves when it runs
ttlExpire ==
    [sid \in {x \in DOMAIN sessions : sessions[x].expiresAt > now} |-> sessions[sid]]

\* Paths of an update document, as sequences of field names.  One path
\* reaches into the other.
Overlap(p, q) ==
    \/ Len(p) <= Len(q) /\ SubSeq(q, 1, Len(p)) = p
    \/ Len(q) <= Len(p) /\ SubSeq(p, 1, Len(q)) = q

\* the database rejects an update whose operators write overlapping paths
updateConflict(setPaths, pushPaths) ==
    \E p \in setPaths, q \in pushPaths : Overlap(p, q)

validationHistoryPath == <<"validationDetails", "validationHistory">>

\* storeSessionCookies: the paths its update sets; dbSessionData carries a
\* validationHistory array
storeSessionCookiesSets ==
    {<<"sessionId">>, <<"userEmail">>, <<"userAgent">>, <<"viewport">>,
     <<"cookies">>, <<"status">>, validationHistoryPath, <<"lastActivity">>}

\* SessionManager.storeSessionCookies: the collection its findOneAndUpdate
\* leaves.  The update sets validationHistory and pushes to it; when the
\* database rejects it the method logs a warning and goes on.
storeSessionCookies(sid) ==
    IF updateConflict(storeSessionCookiesSets, {validationHistoryPath})
    THEN sessions
    ELSE LET old == IF sid \in DOMAIN sessions THEN sessions[sid]
                    ELSE NewSessionDefaults
         IN PutSession(sid,
                [old EXCEPT !.status = "pending",
                            !.lastActivity = now,
                            !.validationHistory =
                                <<[success |-> TRUE, method |-> "manual"],
                                  [success |-> TRUE, method |-> "manual"]>>])

-----------------------------------------------------------------------------
(* Session cache: SessionManager *)

\* SessionManager.runPuppeteerValidation: logged in only if the platform says
\* so and the browser run did not fail
runPuppeteerValidation(browserOk) ==
    [isLoggedIn |-> browserOk /\ quotexLoggedIn,
     source |-> "fresh_puppeteer_validation",
     verifierCalled |-> TRUE,
     lastValidation |-> now,
     timestamp |-> now]

\* the fast path of validateQuotexSession is taken
CacheHit(sid) ==
    \E rec \in findValidatedSession(sid) : ~needsRevalidation(rec)

\* SessionManager.validateQuotexSession: the value it returns
validateResult(sid, browserOk) ==
    IF CacheHit(sid)
    THEN [isLoggedIn |-> TRUE, source |-> "database_cache", verifierCalled |-> FALSE,
          lastValidation |-> sessions[sid].lastValidationCheck,
          timestamp |-> now]
    ELSE runPuppeteerValidation(browserOk)

\* SessionManager.validateQuotexSession: the collection it leaves
validateSessions(sid, browserOk) ==
    IF CacheHit(sid)
    THEN PutSession(sid, refreshExpiration(updateActivity(sessions[sid]), 24))
    ELSE IF runPuppeteerValidation(browserOk).isLoggedIn
         THEN PutSession(sid, storeValidatedSession(sid))
         ELSE sessions

\* the bounded counters leave room for this call
ValidateInBounds(sid) ==
    sid \in DOMAIN sessions =>
        /\ sessions[sid].validationAttempts < MaxAttempts
        /\ Len(sessions[sid].validationHistory) < MaxHistory

-----------------------------------------------------------------------------
(* Capture routes: the state before any request *)

\* no handler in progress
NoRequest == [route |-> "none", pc |-> "idle", svc |-> 0, startCapture |-> "not_called"]

\* let captureService = null, and no instance constructed
RoutesIdle ==
    /\ captureService = 0
    /\ services = <<>>
    /\ requests = [i \in 1..MaxRequests |-> NoRequest]

-----------------------------------------------------------------------------
(* Stored documents *)

\* actualResult of a Prediction document that was not graded
NotVerified == [direction |-> "none", correct |-> FALSE, verifiedAt |-> 0]

\* a CandleData document whose direction agrees with its prices;
\* closeAboveOpen stands for close > open
Candle(ts, sid, dir, method) ==
    [timestamp |-> ts, tradingPair |-> TradingPair, sessionId |-> sid,
     direction |-> dir, closeAboveOpen |-> (dir = "up"),
     extractionMethod |-> method]

\* a Prediction document that was not graded yet
Prediction(ts, sid, dir, conf, algo) ==
    [timestamp |-> ts, tradingPair |-> TradingPair, sessionId |-> sid,
     direction |-> dir, confidence |-> conf, algorithmUsed |-> algo,
     actualResult |-> NotVerified, accuracy |-> -1, isProcessed |-> FALSE]

\* n candles of session s1 stored by an earlier run, one per minute, the
\* last one 20 seconds before time 0, with alternating directions
History(n) ==
    [i \in 1..n |-> Candle((i - n) * 60 * 1000 - 20 * 1000, "s1",
                           IF i % 2 = 1 THEN "up" ELSE "down", "tesseract")]

Idle == [endpoint |-> "none", sessionId |-> NoSessionId, status |-> 0,
         sessionLoggedIn |-> FALSE, count |-> 0]
NoValidation == [isLoggedIn |-> FALSE, source |-> "none", verifierCalled |-> FALSE,
                 lastValidation |-> 0, timestamp |-> 0]

\* no function was called directly yet.  Of a call, name is the function,
\* recentCandles, patternPred and trendPred are its arguments ({} stands for
\* null) and result holds what it returned (empty for null).
NoCall == [name |-> "none", recentCandles |-> <<>>, patternPred |-> {},
           trendPred |-> {}, result |-> {}]

-----------------------------------------------------------------------------
(* Prediction engine: services/predictionService.js *)

minCandlesRequired == 10
HistoryLimit == 1000
MatchLimit == 20

Reverse(s) == [i \in 1..Len(s) |-> s[Len(s) + 1 - i]]

\* Array.prototype.slice(-n)
LastN(s, n) == SubSeq(s, IF Len(s) > n THEN Len(s) - n + 1 ELSE 1, Len(s))

\* Array.prototype.slice(0, n) and Query.limit(n)
FirstN(s, n) == SubSeq(s, 1, IF Len(s) > n THEN n ELSE Len(s))

\* the indices of seq that satisfy Keep, ordered by ascending timestamp
\* (insertion order among equal timestamps)
RECURSIVE SortByTimestamp(_, _)
SortByTimestamp(seq, idx) ==
    IF idx = {} THEN <<>>
    ELSE LET first == CHOOSE i \in idx :
                          \A j \in idx :
                              \/ seq[i].timestamp < seq[j].timestamp
                              \/ (seq[i].timestamp = seq[j].timestamp /\ i <= j)
         IN <<seq[first]>> \o SortByTimestamp(seq, idx \ {first})

Directions(cs) == [i \in 1..Len(cs) |-> cs[i].direction]

\* findSimilarPatterns: the history it scans, CandleData.find({tradingPair,
\* timestamp: {$lt: recentCandles[0].timestamp}}).sort({timestamp: 1})
\* .limit(1000)
historicalCandles(recentCandles) ==
    FirstN(SortByTimestamp(candles,
               {i \in DOMAIN candles :
                   /\ candles[i].tradingPair = recentCandles[1].tradingPair
                   /\ candles[i].timestamp < recentCandles[1].timestamp}),
           HistoryLimit)

\* PredictionService.findSimilarPatterns: the outcome directions of the
\* windows of the scanned history that equal the directions of recentCandles
findSimilarPatterns(recentCandles) ==
    LET patternLength == Len(recentCandles)
        targetPattern == Directions(recentCandles)
        history == historicalCandles(recentCandles)
        RECURSIVE Scan(_)
        Scan(i) ==
            IF i > Len(history) - patternLength - 1 THEN <<>>
            ELSE (IF Directions(SubSeq(history, i + 1, i + patternLength))
                        = targetPattern
                  THEN <<history[i + patternLength + 1].direction>>
                  ELSE <<>>) \o Scan(i + 1)
    IN FirstN(Scan(0), MatchLimit)

CountDir(dirs, d) == Cardinality({i \in DOMAIN dirs : dirs[i] = d})

Min2(a, b) == IF a < b THEN a ELSE b
Max2(a, b) == IF a > b THEN a ELSE b

\* Math.round(num / den) for num >= 0, den > 0: the share not scaled to percent
RoundPercent_NotScaled(num, den) == (2 * num + den) \div (2 * den)

\* Math.round(num / den * 100) for num >= 0, den > 0
RoundPercent(num, den) == (200 * num + den) \div (2 * den)

\* PredictionService.predictFromPatterns: {} stands for null
predictFromPatterns(recentCandles) ==
    LET outcomes == findSimilarPatterns(recentCandles)
        up == CountDir(outcomes, "up")
        down == CountDir(outcomes, "down")
    IN IF Len(outcomes) = 0 THEN {}
       ELSE {[direction |-> IF up > down THEN "up" ELSE "down",
              confidence |-> Min2(95, RoundPercent(Max2(up, down), up + down)),
              algorithmUsed |-> "pattern_matching"]}

\* the length of the run of equal directions that ends at the last one
RECURSIVE Streak(_, _)
Streak(dirs, i) ==
    IF i >= 1 /\ dirs[i] = dirs[Len(dirs)] THEN 1 + Streak(dirs, i - 1) ELSE 0

\* a trend method that predicts a reversal only from a streak of 4
predictFromTrend_Streak4(recentCandles) ==
    LET directions == Directions(recentCandles)
        upCount == CountDir(directions, "up")
        downCount == CountDir(directions, "down")
        lastDirection == directions[Len(directions)]
        consecutiveCount == Streak(directions, Len(directions))
        diff == IF upCount > downCount THEN upCount - downCount
                ELSE downCount - upCount
    IN IF consecutiveCount >= 4
       THEN [direction |-> IF lastDirection = "up" THEN "down" ELSE "up",
             confidence |-> Min2(95, 60 + consecutiveCount * 5),
             algorithmUsed |-> "trend_analysis"]
       ELSE [direction |-> IF upCount > downCount THEN "up" ELSE "down",
             confidence |-> Min2(95, 55 + diff * 5),
             algorithmUsed |-> "trend_analysis"]

\* PredictionService.predictFromTrend
predictFromTrend(recentCandles) ==
    LET directions == Directions(recentCandles)
        upCount == CountDir(directions, "up")
        downCount == CountDir(directions, "down")
        lastDirection == directions[Len(directions)]
        consecutiveCount == Streak(directions, Len(directions))
        diff == IF upCount > downCount THEN upCount - downCount
                ELSE downCount - upCount
    IN IF consecutiveCount >= 3
       THEN [direction |-> IF lastDirection = "up" THEN "down" ELSE "up",
             confidence |-> Min2(95, 60 + consecutiveCount * 5),
             algorithmUsed |-> "trend_analysis"]
       ELSE [direction |-> IF upCount > downCount THEN "up" ELSE "down",
             confidence |-> Min2(95, 55 + diff * 5),
             algorithmUsed |-> "trend_analysis"]

\* a fusion in which the trend direction wins a conflict
combinePredictions_TrendWins(patternPred, trendPred) ==
    IF patternPred # {}
    THEN LET p == CHOOSE x \in patternPred : TRUE
         IN IF p.direction = trendPred.direction
            THEN [p EXCEPT !.confidence = Min2(95, p.confidence + 10),
                           !.algorithmUsed = "pattern_matching_trend_confirmed"]
            ELSE [trendPred EXCEPT !.confidence = Max2(50, p.confidence - 15),
                                   !.algorithmUsed = "pattern_matching_trend_conflict"]
    ELSE trendPred

\* PredictionService.combinePredictions
combinePredictions(patternPred, trendPred) ==
    IF patternPred # {}
    THEN LET p == CHOOSE x \in patternPred : TRUE
         IN IF p.direction = trendPred.direction
            THEN [p EXCEPT !.confidence = Min2(95, p.confidence + 10),
                           !.algorithmUsed = "pattern_matching_trend_confirmed"]
            ELSE [p EXCEPT !.confidence = Max2(50, p.confidence - 15),
                           !.algorithmUsed = "pattern_matching_trend_conflict"]
    ELSE trendPred

\* generatePrediction: last5Candles = chronologicalCandles.slice(-5), where
\* chronologicalCandles = recentCandles.reverse()
last5Candles(recentCandles) == LastN(Reverse(recentCandles), 5)

\* PredictionService.generatePrediction: {} stands for null
generatePrediction(recentCandles) ==
    IF Len(recentCandles) < minCandlesRequired THEN {}
    ELSE {combinePredictions(predictFromPatterns(last5Candles(recentCandles)),
                             predictFromTrend(last5Candles(recentCandles)))}

\* predictionSchema.algorithmUsed: the values the schema admits
\* an enum that also admits the tags the prediction engine emits
AlgorithmEnum_WithEngineTags ==
    {"logistic_regression", "decision_tree", "neural_network", "pattern_matching",
     "pattern_matching_trend_confirmed", "pattern_matching_trend_conflict",
     "trend_analysis", "random"}

AlgorithmEnum ==
    {"logistic_regression", "decision_tree", "neural_network", "pattern_matching"}

\* an enum that also admits the tags the capture service puts on its candles
ExtractionMethodEnum_WithServiceTags ==
    {"tesseract", "opencv", "mock", "advanced_visual_ml", "fallback_mock"}

\* candleDataSchema.captureData.extractionMethod: the values the schema admits
ExtractionMethodEnum == {"tesseract", "opencv", "mock"}

-----------------------------------------------------------------------------
(* Data endpoints: routes/data.js *)

\* the number of documents a find({tradingPair, sessionId}) returns; without
\* a sessionId in the query every session matches
CountFound(seq, sids) ==
    Cardinality({i \in DOMAIN seq : /\ seq[i].tradingPair = TradingPair
                                    /\ seq[i].sessionId \in sids})

\* GET /api/data/candles and GET /api/data/prediction share their guard:
\* 401 without a sessionId or when validateQuotexSession says not logged in
GuardedResponse(name, sid, browserOk, found) ==
    IF sid = NoSessionId
    THEN [endpoint |-> name, sessionId |-> sid, status |-> 401,
          sessionLoggedIn |-> FALSE, count |-> 0]
    ELSE IF ~validateResult(sid, browserOk).isLoggedIn
         THEN [endpoint |-> name, sessionId |-> sid, status |-> 401,
               sessionLoggedIn |-> FALSE, count |-> 0]
         ELSE [endpoint |-> name, sessionId |-> sid, status |-> 200,
               sessionLoggedIn |-> TRUE, count |-> found]

\* GET /api/data/candles
candlesResponse(sid, browserOk) ==
    GuardedResponse("candles", sid, browserOk,
        CountFound(candles, {sid}))

StatsLimit == 10       \* getRecentPredictions(sessionId, 10)

\* PredictionService.getRecentPredictions: the newest `limit` predictions of
\* the session, newest first
getRecentPredictions(sid, limit) ==
    Reverse(LastN(SortByTimestamp(predictions,
                      {i \in DOMAIN predictions : predictions[i].sessionId = sid}),
                  limit))

\* GET /api/data/prediction: the stats it computes from the recent
\* predictions; accuracy -1 stands for null
predictionStats(sid) ==
    LET recentPredictions == getRecentPredictions(sid, StatsLimit)
        verifiedPredictions ==
            {i \in DOMAIN recentPredictions :
                recentPredictions[i].actualResult # NotVerified}
        correctPredictions ==
            {i \in verifiedPredictions : recentPredictions[i].actualResult.correct}
    IN [totalPredictions |-> Len(recentPredictions),
        verifiedPredictions |-> Cardinality(verifiedPredictions),
        accuracy |-> IF Cardinality(verifiedPredictions) > 0
                     THEN RoundPercent(Cardinality(correctPredictions),
                                       Cardinality(verifiedPredictions))
                     ELSE -1]

\* the stats of an answer that carries no prediction
NoStats == [totalPredictions |-> 0, verifiedPredictions |-> 0, accuracy |-> -1]

\* GET /api/data/prediction: the latest prediction of the session, if any,
\* and with it the stats
predictionResponse(sid, browserOk) ==
    LET r == GuardedResponse("prediction", sid, browserOk,
                 IF \E i \in DOMAIN predictions :
                        /\ predictions[i].tradingPair = TradingPair
                        /\ predictions[i].sessionId = sid
                 THEN 1 ELSE 0)
    IN [endpoint |-> r.endpoint, sessionId |-> r.sessionId, status |-> r.status,
        sessionLoggedIn |-> r.sessionLoggedIn, count |-> r.count,
        stats |-> IF r.count = 1 THEN predictionStats(sid) ELSE NoStats]

\* GET /api/data/predictions: the query filters by sessionId when one is
\* given; the handler does not consult the session cache.  sessionLoggedIn
\* records whether validateQuotexSession could answer isLoggedIn = true.
predictionsResponse(sid) ==
    [endpoint |-> "predictions", sessionId |-> sid, status |-> 200,
     sessionLoggedIn |-> sid # NoSessionId /\ (CacheHit(sid) \/ quotexLoggedIn),
     count |-> CountFound(predictions,
                  IF sid # NoSessionId THEN {sid}
                  ELSE {predictions[i].sessionId : i \in DOMAIN predictions})]

-----------------------------------------------------------------------------
(* Specification of the session cache and the data endpoints *)

InitSessionRecords ==
    [isValidated : BOOLEAN, status : Statuses, lastValidationCheck : {0},
     lastActivity : {0}, expiresAt : {HourMs, ExpiryMs},
     validationAttempts : {0}, validationHistory : {<<>>}]

CaptureIdle ==
    /\ isCapturing = FALSE
    /\ captureInterval = 0
    /\ timers = <<>>
    /\ page = "null"
    /\ svcSessionId = ""
    /\ cycles = EmptyBag
    /\ cleanupPc = "idle"
    /\ stopped = FALSE
    /\ lastResult = "none"

InitSession ==
    /\ now = 0
    /\ quotexLoggedIn \in BOOLEAN
    /\ \/ sessions = <<>>
       \/ \E rec \in InitSessionRecords : sessions = [x \in {"s1"} |-> rec]
    /\ validationResult = NoValidation
    /\ response = Idle
    /\ candles = History(1)
    /\ predictions = <<Prediction(0, "s1", "up", 60, "pattern_matching")>>
    /\ CaptureIdle
    /\ call = NoCall
    /\ RoutesIdle

\* an hour passes
SessionClock ==
    /\ now + HourMs <= MaxHours * HourMs
    /\ now' = now + HourMs
    /\ UNCHANGED <<routeVars, quotexLoggedIn, sessionVars, call, candles, predictions, captureVars>>

\* the user logs in to or out of the platform in the browser session
PlatformLogin ==
    /\ quotexLoggedIn' = ~quotexLoggedIn
    /\ UNCHANGED <<routeVars, now, sessionVars, call, candles, predictions, captureVars>>

\* POST /api/auth/validate-session
ValidateSession ==
    \E sid \in SessionIds, browserOk \in BOOLEAN :
        /\ ValidateInBounds(sid)
        /\ validationResult' = validateResult(sid, browserOk)
        /\ sessions' = validateSessions(sid, browserOk)
        /\ UNCHANGED <<routeVars, now, quotexLoggedIn, response, candles, predictions, captureVars, call>>

\* GET /api/data/candles
GetCandles ==
    \E sid \in SessionIds \cup {NoSessionId}, browserOk \in BOOLEAN :
        /\ sid # NoSessionId => ValidateInBounds(sid)
        /\ response' = candlesResponse(sid, browserOk)
        /\ IF sid = NoSessionId
           THEN UNCHANGED <<validationResult, sessions>>
           ELSE /\ validationResult' = validateResult(sid, browserOk)
                /\ sessions' = validateSessions(sid, browserOk)
        /\ UNCHANGED <<routeVars, now, quotexLoggedIn, candles, predictions, captureVars, call>>

\* GET /api/data/prediction
GetPrediction ==
    \E sid \in SessionIds \cup {NoSessionId}, browserOk \in BOOLEAN :
        /\ sid # NoSessionId => ValidateInBounds(sid)
        /\ response' = predictionResponse(sid, browserOk)
        /\ IF sid = NoSessionId
           THEN UNCHANGED <<validationResult, sessions>>
           ELSE /\ validationResult' = validateResult(sid, browserOk)
                /\ sessions' = validateSessions(sid, browserOk)
        /\ UNCHANGED <<routeVars, now, quotexLoggedIn, candles, predictions, captureVars, call>>

\* POST /api/auth/invalidate-session: 400 without a sessionId, 404 without a
\* record, 500 when invalidate throws, 200 otherwise
invalidateResponse(sid) ==
    [endpoint |-> "invalidate-session", sessionId |-> sid,
     status |-> IF sid = NoSessionId THEN 400
                ELSE IF sid \notin DOMAIN sessions THEN 404
                ELSE IF saveAccepts(invalidate(sessions[sid])) THEN 200
                ELSE 500,
     sessionLoggedIn |-> FALSE, count |-> 0]

\* POST /api/auth/invalidate-session
InvalidateSession ==
    \E sid \in SessionIds \cup {NoSessionId} :
        /\ sid \in DOMAIN sessions =>
               Len(sessions[sid].validationHistory) < MaxHistory
        /\ response' = invalidateResponse(sid)
        /\ sessions' = IF invalidateResponse(sid).status = 200
                       THEN PutSession(sid, invalidate(sessions[sid]))
                       ELSE sessions
        /\ UNCHANGED <<routeVars, now, quotexLoggedIn, validationResult, candles,
                       predictions, captureVars, call>>

\* POST /api/auth/store-session-cookies: storeSessionCookies returns true
\* whether or not the database took the update
StoreSessionCookies ==
    \E sid \in SessionIds \cup {NoSessionId} :
        /\ response' = [endpoint |-> "store-session-cookies", sessionId |-> sid,
                        status |-> IF sid = NoSessionId THEN 400 ELSE 200,
                        sessionLoggedIn |-> FALSE, count |-> 0]
        /\ sessions' = IF sid = NoSessionId THEN sessions
                       ELSE storeSessionCookies(sid)
        /\ UNCHANGED <<routeVars, now, quotexLoggedIn, validationResult, candles,
                       predictions, captureVars, call>>

\* the hours a client asks for; the route's default is 24
RefreshHours == {1, 24}

\* POST /api/auth/refresh-session: 400 without a sessionId, 404 without a
\* record, 200 after refreshExpiration(hours)
RefreshSession ==
    \E sid \in SessionIds \cup {NoSessionId}, hours \in RefreshHours :
        /\ response' = [endpoint |-> "refresh-session", sessionId |-> sid,
                        status |-> IF sid = NoSessionId THEN 400
                                   ELSE IF sid \notin DOMAIN sessions THEN 404
                                   ELSE 200,
                        sessionLoggedIn |-> FALSE, count |-> hours]
        /\ sessions' = IF sid \in DOMAIN sessions
                       THEN PutSession(sid, refreshExpiration(sessions[sid], hours))
                       ELSE sessions
        /\ UNCHANGED <<routeVars, now, quotexLoggedIn, validationResult, candles,
                       predictions, captureVars, call>>

\* POST /api/auth/cleanup-sessions
CleanupSessions ==
    /\ response' = [endpoint |-> "cleanup-sessions", sessionId |-> NoSessionId,
                    status |-> 200, sessionLoggedIn |-> FALSE,
                    count |-> deletedCount]
    /\ sessions' = cleanupExpiredSessions
    /\ UNCHANGED <<routeVars, now, quotexLoggedIn, validationResult, candles,
                   predictions, captureVars, call>>

\* the hourly interval of the SessionData module calls cleanupExpiredSessions
HourlyCleanup ==
    /\ sessions' = cleanupExpiredSessions
    /\ UNCHANGED <<routeVars, now, quotexLoggedIn, validationResult, response, candles,
                   predictions, captureVars, call>>

\* the TTL monitor of the database runs
TtlExpire ==
    /\ sessions' = ttlExpire
    /\ UNCHANGED <<routeVars, now, quotexLoggedIn, validationResult, response, candles,
                   predictions, captureVars, call>>

\* GET /api/data/predictions
GetPredictions ==
    \E sid \in SessionIds \cup {NoSessionId} :
        /\ response' = predictionsResponse(sid)
        /\ UNCHANGED <<routeVars, now, quotexLoggedIn, sessions, validationResult,
                       candles, predictions, captureVars, call>>

NextSession ==
    \/ SessionClock
    \/ PlatformLogin
    \/ ValidateSession
    \/ GetCandles
    \/ GetPrediction
    \/ GetPredictions
    \/ InvalidateSession

SpecSession == InitSession /\ [][NextSession]_vars

\* The session store from an empty collection on, under every route and
\* timer that writes it
InitStore ==
    /\ now = 0
    /\ quotexLoggedIn \in BOOLEAN
    /\ sessions = <<>>
    /\ validationResult = NoValidation
    /\ response = Idle
    /\ candles = History(1)
    /\ predictions = <<Prediction(0, "s1", "up", 60, "pattern_matching")>>
    /\ CaptureIdle
    /\ call = NoCall
    /\ RoutesIdle

NextStore ==
    \/ SessionClock
    \/ PlatformLogin
    \/ ValidateSession
    \/ InvalidateSession
    \/ StoreSessionCookies
    \/ RefreshSession
    \/ CleanupSessions
    \/ HourlyCleanup
    \/ TtlExpire

SpecStore == InitStore /\ [][NextStore]_vars

\* cleanupExpiredSessions on a collection that earlier runs left: records of
\* two sessions, by status, last activity (more than 7 days ago, 7 days
\* less two hours ago, now) and expiry (an hour ago, in two hours, in 24
\* hours)
ReapSessionIds == {"s1", "s2"}

ReapRecords ==
    {[isValidated |-> (st = "active"), status |-> st, lastValidationCheck |-> 0,
      lastActivity |-> la, expiresAt |-> ex,
      validationAttempts |-> 0, validationHistory |-> <<>>] :
        st \in Statuses,
        la \in {0 - SevenDaysMs - HourMs, 2 * HourMs - SevenDaysMs, 0},
        ex \in {0 - HourMs, 2 * HourMs, ExpiryMs}}

ReapStores ==
    UNION {[ids -> ReapRecords] : ids \in SUBSET ReapSessionIds}

InitReap ==
    /\ now = 0
    /\ quotexLoggedIn = TRUE
    /\ sessions \in ReapStores
    /\ validationResult = NoValidation
    /\ response = Idle
    /\ candles = History(1)
    /\ predictions = <<>>
    /\ CaptureIdle
    /\ call = NoCall
    /\ RoutesIdle

NextReap ==
    \/ SessionClock
    \/ RefreshSession
    \/ CleanupSessions
    \/ HourlyCleanup

SpecReap == InitReap /\ [][NextReap]_vars

-----------------------------------------------------------------------------
(* Capture scheduler: ScreenCaptureService *)

MaxTicks == 3          \* the capture clock runs 0 .. MaxTicks intervals
MaxInFlight == 2       \* captureAndProcess calls that may be in progress
MaxTimers == 1         \* interval timers that may be alive

IntervalMs == 5000              \* startCapture(intervalMs = 5000)
DuplicateWindowMs == 30000      \* saveCandleData
RecentLimit == 20               \* getRecentCandles(20)

RemoveKey(f, k) == [x \in DOMAIN f \ {k} |-> f[x]]
PutKey(f, k, v) == [x \in DOMAIN f \cup {k} |-> IF x = k THEN v ELSE f[x]]
FirstFree(used, max) ==
    CHOOSE i \in (1..max) \ used : \A j \in (1..max) \ used : i <= j

\* captureAndProcess past its guard: the timestamp is taken and the
\* screenshot is requested.  awaited: startCapture awaits this call.
\* sessionId is the one extractCandleData puts on the candle; saved is what
\* saveCandleData returned.
NewCycle(awaited) ==
    [pc |-> "screenshot", timestamp |-> now, sessionId |-> NoSessionId,
     saved |-> "none", awaited |-> awaited]

\* captureAndProcess after saveCandleData returned: timestamp and candle are
\* not used again
AfterSave(c, how) ==
    [pc |-> "predict", timestamp |-> 0, sessionId |-> NoSessionId,
     saved |-> how, awaited |-> c.awaited]

\* captureAndProcess calls that have not returned
InFlight == BagCardinality(cycles)
AwaitedCount == BagCardinality([c \in {x \in BagToSet(cycles) : x.awaited} |-> cycles[c]])
Advance(c, d) == (cycles (-) SetToBag({c})) (+) SetToBag({d})

\* the guard of captureAndProcess lets the call through
PassesGuard(capturing) == page # "null" /\ capturing

\* setInterval in startCapture
setInterval(tm) == PutKey(tm, FirstFree(DOMAIN tm, MaxTimers), FALSE)

\* clearInterval in stopCapture
clearInterval(tm) == IF captureInterval # 0 THEN RemoveKey(tm, captureInterval) ELSE tm

\* what the catch block of captureAndProcess does to the loop: it logs the
\* error and returns null
\* a catch block that ends the loop
catchIsCapturing_StopsLoop == FALSE

catchIsCapturing == isCapturing

catchTimers(tm) == tm

\* the ways captureAndProcess returns null from its catch block; the second
\* one after extractCandleData had returned fallback data
Failures == {"failed", "failed_fallback"}

\* captureAndProcess returns; a startCapture that awaited it goes on to
\* setInterval
ReturnCycle(c, how) ==
    /\ cycles' = cycles (-) SetToBag({c})
    /\ lastResult' = IF how \in Failures THEN how ELSE c.saved
    /\ isCapturing' = IF how \in Failures THEN catchIsCapturing ELSE isCapturing
    /\ LET tm == IF how \in Failures THEN catchTimers(timers) ELSE timers
       IN IF c.awaited
          THEN /\ timers' = setInterval(tm)
               /\ captureInterval' = FirstFree(DOMAIN tm, MaxTimers)
          ELSE /\ timers' = tm
               /\ captureInterval' =
                      IF captureInterval \in DOMAIN tm THEN captureInterval ELSE 0

\* ScreenCaptureService.initialize, called once on a fresh service; when it
\* fails it calls cleanup
Initialize ==
    \E ok \in BOOLEAN :
        /\ page = "null"
        /\ cleanupPc = "idle"
        /\ IF ok
           THEN /\ page' = "open"
                /\ svcSessionId' = "s1"
                /\ UNCHANGED <<isCapturing, timers, captureInterval, stopped>>
           ELSE /\ isCapturing' = FALSE
                /\ timers' = clearInterval(timers)
                /\ captureInterval' = 0
                /\ stopped' = TRUE
                /\ UNCHANGED <<page, svcSessionId>>
        /\ UNCHANGED <<routeVars, now, quotexLoggedIn, sessionVars, call, candles, predictions,
                       cycles, cleanupPc, lastResult>>

\* ScreenCaptureService.startCapture up to the await of its initial cycle
StartCapture ==
    /\ ~isCapturing
    /\ Cardinality(DOMAIN timers) + AwaitedCount < MaxTimers
    /\ PassesGuard(TRUE) => InFlight < MaxInFlight
    /\ isCapturing' = TRUE
    /\ stopped' = FALSE
    /\ IF PassesGuard(TRUE)
       THEN /\ cycles' = cycles (+) SetToBag({NewCycle(TRUE)})
            /\ UNCHANGED <<timers, captureInterval>>
       ELSE /\ timers' = setInterval(timers)
            /\ captureInterval' = FirstFree(DOMAIN timers, MaxTimers)
            /\ UNCHANGED cycles
    /\ UNCHANGED <<routeVars, now, quotexLoggedIn, sessionVars, call, candles, predictions,
                   page, svcSessionId, cleanupPc, lastResult>>

\* the callback of the interval timer: one captureAndProcess call
IntervalTick ==
    \E id \in DOMAIN timers :
        /\ timers[id]
        /\ PassesGuard(isCapturing) => InFlight < MaxInFlight
        /\ timers' = [timers EXCEPT ![id] = FALSE]
        /\ IF PassesGuard(isCapturing)
           THEN cycles' = cycles (+) SetToBag({NewCycle(FALSE)})
           ELSE UNCHANGED cycles
        /\ UNCHANGED <<routeVars, now, quotexLoggedIn, sessionVars, call, candles, predictions,
                       isCapturing, captureInterval, page, svcSessionId,
                       cleanupPc, stopped, lastResult>>

\* POST /api/data/manual-capture on an initialized service whose guard passes
ManualCapture ==
    /\ PassesGuard(isCapturing)
    /\ InFlight < MaxInFlight
    /\ cycles' = cycles (+) SetToBag({NewCycle(FALSE)})
    /\ UNCHANGED <<routeVars, now, quotexLoggedIn, sessionVars, call, candles, predictions,
                   isCapturing, captureInterval, timers, page, svcSessionId,
                   cleanupPc, stopped, lastResult>>

\* analysis.colors.direction || analysis.signal.direction || 'unknown'
AnalysisDirections == {"up", "down", "unknown"}

\* generateFallbackData: mock prices with a random change; the direction is
\* read off the prices
generateFallbackData(timestamp, sessionId, closeAboveOpen) ==
    Candle(timestamp, sessionId, IF closeAboveOpen THEN "up" ELSE "down",
           "fallback_mock")

\* extractCandleData: when the analysis fails it returns fallback data.
\* Otherwise close is open plus a random change, and the direction is the
\* one the analysis gave unless that is 'unknown'.
extractCandleData(timestamp, sessionId, analysisOk, dir, closeAboveOpen) ==
    IF ~analysisOk THEN generateFallbackData(timestamp, sessionId, closeAboveOpen)
    ELSE [timestamp |-> timestamp, tradingPair |-> TradingPair,
          sessionId |-> sessionId,
          direction |-> IF dir = "unknown"
                        THEN (IF closeAboveOpen THEN "up" ELSE "down")
                        ELSE dir,
          closeAboveOpen |-> closeAboveOpen,
          extractionMethod |-> "advanced_visual_ml"]

\* saveCandleData: the query for a recent duplicate finds one
recentDuplicate(timestamp, sessionId) ==
    \E i \in DOMAIN candles :
        /\ candles[i].timestamp >= timestamp - DuplicateWindowMs
        /\ candles[i].timestamp <= timestamp + DuplicateWindowMs
        /\ candles[i].tradingPair = TradingPair
        /\ candles[i].sessionId = sessionId

\* captureAndProcess: page.screenshot or the upload throws, or they end,
\* extractCandleData builds the candle for the service's sessionId and
\* saveCandleData looks for a recent duplicate; with one it returns that
\* document, without one it goes on to save
CycleExtract ==
    \E c \in BagToSet(cycles), ok \in BOOLEAN :
        /\ c.pc = "screenshot"
        /\ IF ok
           THEN /\ cycles' = Advance(c,
                       IF recentDuplicate(c.timestamp, svcSessionId)
                       THEN AfterSave(c, "duplicate")
                       ELSE [c EXCEPT !.pc = "insert", !.sessionId = svcSessionId])
                /\ UNCHANGED <<isCapturing, timers, captureInterval, lastResult>>
           ELSE ReturnCycle(c, "failed")
        /\ UNCHANGED <<routeVars, now, quotexLoggedIn, sessionVars, call, candles, predictions,
                       page, svcSessionId, cleanupPc, stopped>>

\* a save() that validates nothing
schemaAccepts_Anything(candleData) == TRUE

\* saveCandleData: new CandleData(candleData).save() validates the document
\* against the schema before it writes it
schemaAccepts(candleData) == candleData.extractionMethod \in ExtractionMethodEnum

\* the observations extractCandleData can return to a cycle, by whether
\* the visual analysis worked
BuiltCandles(timestamp, sessionId, analysisOk) ==
    {extractCandleData(timestamp, sessionId, analysisOk, dir, closeAboveOpen) :
        dir \in AnalysisDirections, closeAboveOpen \in BOOLEAN}

\* saveCandleData: save() ends.  The candle is the one extractCandleData
\* built; what the analysis gave is first looked at here.  save() throws
\* for a candle the schema rejects and stores one it accepts.
CycleInsert ==
    \E c \in BagToSet(cycles), analysisOk \in BOOLEAN :
        /\ c.pc = "insert"
        /\ \/ /\ {candleData \in BuiltCandles(c.timestamp, c.sessionId, analysisOk) :
                     ~schemaAccepts(candleData)} # {}
              /\ ReturnCycle(c, IF analysisOk THEN "failed" ELSE "failed_fallback")
              /\ UNCHANGED candles
           \/ \E candleData \in BuiltCandles(c.timestamp, c.sessionId, analysisOk) :
                 /\ schemaAccepts(candleData)
                 /\ candles' = Append(candles, candleData)
                 /\ cycles' = Advance(c, AfterSave(c, "new"))
                 /\ UNCHANGED <<isCapturing, timers, captureInterval, lastResult>>
        /\ UNCHANGED <<routeVars, now, quotexLoggedIn, sessionVars, call, predictions,
                       page, svcSessionId, cleanupPc, stopped>>

\* ScreenCaptureService.getRecentCandles(20): the newest 20 candles of the
\* service's session, oldest first
getRecentCandles ==
    LastN(SortByTimestamp(candles,
              {i \in DOMAIN candles : /\ candles[i].sessionId = svcSessionId
                                      /\ candles[i].tradingPair = TradingPair}),
          RecentLimit)

\* PredictionService.storePrediction: new Prediction(...).save() validates
\* the document against the schema; the cycle catches the error
storePrediction(pred) ==
    IF pred.algorithmUsed \in AlgorithmEnum
    THEN Append(predictions,
                Prediction(now, svcSessionId, pred.direction, pred.confidence,
                           pred.algorithmUsed))
    ELSE predictions

\* captureAndProcess after saveCandleData returned a document
CyclePredict ==
    \E c \in BagToSet(cycles) :
        /\ c.pc = "predict"
        /\ predictions' =
               IF generatePrediction(getRecentCandles) = {} THEN predictions
               ELSE storePrediction(CHOOSE x \in generatePrediction(getRecentCandles) : TRUE)
        /\ ReturnCycle(c, "done")
        /\ UNCHANGED <<routeVars, now, quotexLoggedIn, sessionVars, call, candles,
                       page, svcSessionId, cleanupPc, stopped>>

\* ScreenCaptureService.stopCapture
StopCapture ==
    /\ isCapturing' = FALSE
    /\ timers' = clearInterval(timers)
    /\ captureInterval' = 0
    /\ stopped' = TRUE
    /\ UNCHANGED <<routeVars, now, quotexLoggedIn, sessionVars, call, candles, predictions,
                   page, svcSessionId, cycles, cleanupPc, lastResult>>

\* ScreenCaptureService.cleanup up to its first await after stopCapture
CleanupBegin ==
    /\ cleanupPc = "idle"
    /\ cleanupPc' = "closing"
    /\ isCapturing' = FALSE
    /\ timers' = clearInterval(timers)
    /\ captureInterval' = 0
    /\ stopped' = TRUE
    /\ UNCHANGED <<routeVars, now, quotexLoggedIn, sessionVars, call, candles, predictions,
                   page, svcSessionId, cycles, lastResult>>

\* cleanup: page and browser are closed and the fields are reset
CleanupFinish ==
    /\ cleanupPc = "closing"
    /\ cleanupPc' = "idle"
    /\ page' = "null"
    /\ svcSessionId' = ""
    /\ UNCHANGED <<routeVars, now, quotexLoggedIn, sessionVars, call, candles, predictions,
                   isCapturing, captureInterval, timers, cycles, stopped, lastResult>>

\* one interval of time passes: every timer is due
CaptureClock ==
    /\ now + IntervalMs <= MaxTicks * IntervalMs
    /\ now' = now + IntervalMs
    /\ timers' = [id \in DOMAIN timers |-> TRUE]
    /\ UNCHANGED <<routeVars, quotexLoggedIn, sessionVars, call, candles, predictions,
                   isCapturing, captureInterval, page, svcSessionId, cycles,
                   cleanupPc, stopped, lastResult>>

\* what the collections hold when the service is constructed: documents an
\* earlier run stored, one short of the history a prediction needs, or just
\* enough of it together with an ungraded prediction
InitialStores ==
    {<< History(minCandlesRequired - 1), <<>> >>,
     << History(minCandlesRequired),
        <<Prediction(-20 * 1000, "s1", "up", 60, "pattern_matching")>> >>}

\* the service is constructed; the session cache has no record of the session
InitService ==
    /\ now = 0
    /\ sessions = <<>>
    /\ validationResult = NoValidation
    /\ response = Idle
    /\ \E st \in InitialStores : candles = st[1] /\ predictions = st[2]
    /\ CaptureIdle
    /\ call = NoCall
    /\ RoutesIdle

\* the browser session is logged in on the platform throughout
InitCapture == InitService /\ quotexLoggedIn = TRUE

\* the browser session may be logged in or not, and that may change
InitCaptureAuth == InitService /\ quotexLoggedIn \in BOOLEAN

NextCapture ==
    \/ CaptureClock
    \/ Initialize
    \/ StartCapture
    \/ IntervalTick
    \/ ManualCapture
    \/ CycleExtract
    \/ CycleInsert
    \/ CyclePredict
    \/ StopCapture
    \/ CleanupBegin
    \/ CleanupFinish

SpecCapture == InitCapture /\ [][NextCapture]_vars

NextCaptureAuth == NextCapture \/ PlatformLogin

SpecCaptureAuth == InitCaptureAuth /\ [][NextCaptureAuth]_vars

-----------------------------------------------------------------------------
(* Capture routes: POST /start-capture and /stop-capture of routes/data.js  *)
(* over the ScreenCaptureService instances they construct.  A handler is    *)
(* one step from await to await; a cycle of an instance is one step.        *)

\* an instance as its constructor leaves it.  page stands for browser and
\* page, liveTimers for the interval timers the instance set and did not
\* clear.  failedInARow is not a field of the service: it counts the cycles
\* of the instance that returned from the catch block of captureAndProcess
\* since the last cycle that did not.
NewService ==
    [isCapturing |-> FALSE, captureInterval |-> FALSE, liveTimers |-> 0,
     page |-> FALSE, sessionId |-> NoSessionId, failedInARow |-> 0]

\* ScreenCaptureService.stopCapture on an instance
stopCaptureOf(svc) ==
    [svc EXCEPT !.isCapturing = FALSE,
                !.liveTimers = IF svc.captureInterval THEN svc.liveTimers - 1
                               ELSE svc.liveTimers,
                !.captureInterval = FALSE]

\* ScreenCaptureService.cleanup after stopCapture: page and browser are
\* closed and the fields are reset
cleanupOf(svc) == [svc EXCEPT !.page = FALSE, !.sessionId = NoSessionId]

\* startCapture: this.captureInterval = setInterval(...)
setIntervalOf(svc) ==
    [svc EXCEPT !.liveTimers = svc.liveTimers + 1, !.captureInterval = TRUE]

\* captureAndProcess returned, from its catch block or not
cycleEndOf(svc, failed) ==
    [svc EXCEPT !.failedInARow =
                    IF failed THEN Min2(svc.failedInARow + 1, MaxFailures) ELSE 0]

\* ScreenCaptureService.getStatus
getStatus(svc) ==
    [isInitialized |-> svc.page,
     isCapturing |-> svc.isCapturing,
     sessionId |-> svc.sessionId,
     pageUrl |-> IF svc.page THEN "https://quotex.com/trading" ELSE "null",
     cloudStorage |-> [connected |-> TRUE, folder |-> "folder"]]

\* the response of POST /start-capture; startCapture tells what the
\* handler's call of startCapture did: it was "not_called", it "started" a
\* loop, or it returned at once because the instance was "already_running"
StartResponse(sid, status, startCapture) ==
    [endpoint |-> "start-capture", sessionId |-> sid, status |-> status,
     sessionLoggedIn |-> FALSE, count |-> 0, startCapture |-> startCapture]

StopResponse ==
    [endpoint |-> "stop-capture", sessionId |-> NoSessionId, status |-> 200,
     sessionLoggedIn |-> FALSE, count |-> 0]

\* the handler of /start-capture goes on without an error to its response
Respond(i, svcs) ==
    /\ services' = svcs
    /\ requests' = [requests EXCEPT ![i] = NoRequest]
    /\ UNCHANGED captureService

\* the catch block of /start-capture: it cleans up the instance the global
\* holds, if any, and answers 500
Throw(i, svcs) ==
    IF captureService # 0
    THEN /\ services' = [svcs EXCEPT ![captureService] = stopCaptureOf(@)]
         /\ requests' = [requests EXCEPT ![i] =
                             [@ EXCEPT !.pc = "catchCleanup", !.svc = captureService]]
         /\ UNCHANGED <<captureService, response>>
    ELSE /\ Respond(i, svcs)
         /\ response' = StartResponse("s1", 500, requests[i].startCapture)

\* captureService = new ScreenCaptureService() and the call of initialize
\* up to its first await
Construct(i, svcs) ==
    /\ services' = Append(svcs, [NewService EXCEPT !.sessionId = "s1"])
    /\ captureService' = Len(svcs) + 1
    /\ requests' = [requests EXCEPT ![i] =
                        [route |-> "start", pc |-> "initialize",
                         svc |-> Len(svcs) + 1, startCapture |-> "not_called"]]
    /\ UNCHANGED response

\* the handler slot a new request takes
FreeSlot(i) ==
    /\ requests[i].pc = "idle"
    /\ \A j \in 1..(i - 1) : requests[j].pc # "idle"

\* POST /start-capture up to its first await: 400 without a sessionId;
\* cleanup of the instance the global holds, or a new instance
StartCaptureRoute ==
    \E i \in 1..MaxRequests, sid \in SessionIds \cup {NoSessionId} :
        /\ FreeSlot(i)
        /\ (sid # NoSessionId /\ captureService = 0) => Len(services) < MaxServices
        /\ IF sid = NoSessionId
           THEN /\ response' = StartResponse(sid, 400, "not_called")
                /\ UNCHANGED routeVars
           ELSE IF captureService # 0
           THEN /\ services' = [services EXCEPT ![captureService] = stopCaptureOf(@)]
                /\ requests' = [requests EXCEPT ![i] =
                                    [route |-> "start", pc |-> "cleanupOld",
                                     svc |-> captureService,
                                     startCapture |-> "not_called"]]
                /\ UNCHANGED <<captureService, response>>
           ELSE Construct(i, services)
        /\ UNCHANGED <<now, quotexLoggedIn, sessions, validationResult, candles,
                       predictions, captureVars, call>>

\* POST /stop-capture up to its await: 200 when the global is null
StopCaptureRoute ==
    \E i \in 1..MaxRequests :
        /\ FreeSlot(i)
        /\ IF captureService = 0
           THEN /\ response' = StopResponse
                /\ UNCHANGED routeVars
           ELSE /\ services' = [services EXCEPT ![captureService] = stopCaptureOf(@)]
                /\ requests' = [requests EXCEPT ![i] =
                                    [route |-> "stop", pc |-> "stopCleanup",
                                     svc |-> captureService,
                                     startCapture |-> "not_called"]]
                /\ UNCHANGED <<captureService, response>>
        /\ UNCHANGED <<now, quotexLoggedIn, sessions, validationResult, candles,
                       predictions, captureVars, call>>

\* an awaited cleanup() returns and its handler goes on: captureService =
\* null, then a new instance (/start-capture) or the response
CleanupReturns ==
    \E i \in 1..MaxRequests :
        /\ requests[i].pc \in {"cleanupOld", "stopCleanup", "catchCleanup"}
        /\ requests[i].pc = "cleanupOld" => Len(services) < MaxServices
        /\ LET svcs == [services EXCEPT ![requests[i].svc] = cleanupOf(@)]
           IN IF requests[i].pc = "cleanupOld"
              THEN Construct(i, svcs)
              ELSE /\ services' = svcs
                   /\ captureService' = 0
                   /\ requests' = [requests EXCEPT ![i] = NoRequest]
                   /\ response' = IF requests[i].pc = "stopCleanup" THEN StopResponse
                                  ELSE StartResponse("s1", 500, requests[i].startCapture)
        /\ UNCHANGED <<now, quotexLoggedIn, sessions, validationResult, candles,
                       predictions, captureVars, call>>

\* the awaited initialize() returns.  It set browser and page, or it failed,
\* cleaned its instance up and threw.  The handler then calls
\* navigateToTradingPage on the instance the global holds, which throws at
\* once without a page.
InitializeReturns ==
    \E i \in 1..MaxRequests, ok \in BOOLEAN :
        /\ requests[i].pc = "initialize"
        /\ LET svcs == [services EXCEPT ![requests[i].svc] =
                            IF ok THEN [@ EXCEPT !.page = TRUE]
                            ELSE cleanupOf(stopCaptureOf(@))]
           IN IF ok /\ captureService # 0 /\ svcs[captureService].page
              THEN /\ services' = svcs
                   /\ requests' = [requests EXCEPT ![i] =
                                       [@ EXCEPT !.pc = "navigate",
                                                 !.svc = captureService]]
                   /\ UNCHANGED <<captureService, response>>
              ELSE Throw(i, svcs)
        /\ UNCHANGED <<now, quotexLoggedIn, sessions, validationResult, candles,
                       predictions, captureVars, call>>

\* the awaited navigateToTradingPage() returns or throws.  The handler then
\* calls startCapture on the instance the global holds: it returns at once
\* when isCapturing is set; otherwise it sets isCapturing and awaits its
\* first cycle, which returns at once without a page.
NavigateReturns ==
    \E i \in 1..MaxRequests, ok \in BOOLEAN :
        /\ requests[i].pc = "navigate"
        /\ ok => services[requests[i].svc].page
        /\ (ok /\ captureService # 0) =>
               services[captureService].liveTimers < MaxLiveTimers
        /\ IF ~ok \/ captureService = 0
           THEN Throw(i, services)
           ELSE IF services[captureService].isCapturing
           THEN /\ Respond(i, services)
                /\ response' = StartResponse("s1", 200, "already_running")
           ELSE IF ~services[captureService].page
           THEN /\ Respond(i, [services EXCEPT ![captureService] =
                                   setIntervalOf([@ EXCEPT !.isCapturing = TRUE])])
                /\ response' = StartResponse("s1", 200, "started")
           ELSE /\ services' = [services EXCEPT ![captureService].isCapturing = TRUE]
                /\ requests' = [requests EXCEPT ![i] =
                                    [@ EXCEPT !.pc = "firstCycle",
                                              !.svc = captureService,
                                              !.startCapture = "started"]]
                /\ UNCHANGED <<captureService, response>>
        /\ UNCHANGED <<now, quotexLoggedIn, sessions, validationResult, candles,
                       predictions, captureVars, call>>

\* the first cycle of startCapture returns: startCapture sets the interval
\* and returns, and the handler reads getStatus() of the instance the global
\* holds
FirstCycleReturns ==
    \E i \in 1..MaxRequests, failed \in BOOLEAN :
        /\ requests[i].pc = "firstCycle"
        /\ services[requests[i].svc].liveTimers < MaxLiveTimers
        /\ LET svcs == [services EXCEPT ![requests[i].svc] =
                            setIntervalOf(cycleEndOf(@, failed))]
           IN IF captureService = 0
              THEN Throw(i, svcs)
              ELSE /\ Respond(i, svcs)
                   /\ response' = StartResponse("s1", 200, "started")
        /\ UNCHANGED <<now, quotexLoggedIn, sessions, validationResult, candles,
                       predictions, captureVars, call>>

\* an interval timer of an instance fires and the cycle passes the guard of
\* captureAndProcess; the cycle returns, from the catch block or not
ServiceTick ==
    \E id \in DOMAIN services, failed \in BOOLEAN :
        /\ services[id].liveTimers > 0
        /\ services[id].page /\ services[id].isCapturing
        /\ services' = [services EXCEPT ![id] = cycleEndOf(@, failed)]
        /\ UNCHANGED <<now, quotexLoggedIn, sessionVars, candles, predictions,
                       captureVars, call, captureService, requests>>

InitRoutes ==
    /\ now = 0
    /\ quotexLoggedIn = TRUE
    /\ sessions = <<>>
    /\ validationResult = NoValidation
    /\ response = Idle
    /\ candles = History(1)
    /\ predictions = <<>>
    /\ CaptureIdle
    /\ call = NoCall
    /\ RoutesIdle

NextRoutes ==
    \/ StartCaptureRoute
    \/ StopCaptureRoute
    \/ CleanupReturns
    \/ InitializeReturns
    \/ NavigateReturns
    \/ FirstCycleReturns
    \/ ServiceTick

SpecRoutes == InitRoutes /\ [][NextRoutes]_vars

-----------------------------------------------------------------------------
(* Verification of predictions: PredictionService.verifyPrediction *)

MaxVerifySteps == 3    \* the clock of the verification runs 0 .. MaxVerifySteps seconds
MaxStored == 2         \* Prediction documents in the collection

\* PredictionService.verifyPrediction(predictionId, actualCandle) on a
\* document that findById finds
verifyPrediction(prediction, actualCandle) ==
    [prediction EXCEPT
        !.actualResult = [direction |-> actualCandle.direction,
                          correct |-> prediction.direction = actualCandle.direction,
                          verifiedAt |-> now],
        !.accuracy = IF prediction.direction = actualCandle.direction THEN 100 ELSE 0,
        !.isProcessed = TRUE]

\* predictionSchema.methods.verifyPrediction(actualCandle)
verifyPredictionMethod(prediction, actualCandle) ==
    [prediction EXCEPT
        !.actualResult = [direction |-> actualCandle.direction,
                          correct |-> prediction.direction = actualCandle.direction,
                          verifiedAt |-> now]]

\* the candles a caller may hand over as the actual outcome
ActualCandles == {Candle(0, "s1", d, "tesseract") : d \in {"up", "down"}}

VerifyPrediction ==
    \E id \in DOMAIN predictions, actualCandle \in ActualCandles :
        /\ predictions' = [predictions EXCEPT
                               ![id] = verifyPrediction(predictions[id], actualCandle)]
        /\ UNCHANGED <<routeVars, now, quotexLoggedIn, sessionVars, call, candles, captureVars>>

VerifyPredictionMethod ==
    \E id \in DOMAIN predictions, actualCandle \in ActualCandles :
        /\ predictions' = [predictions EXCEPT
                               ![id] = verifyPredictionMethod(predictions[id], actualCandle)]
        /\ UNCHANGED <<routeVars, now, quotexLoggedIn, sessionVars, call, candles, captureVars>>

VerifyClock ==
    /\ now + 1000 <= MaxVerifySteps * 1000
    /\ now' = now + 1000
    /\ UNCHANGED <<routeVars, quotexLoggedIn, sessionVars, call, candles, predictions, captureVars>>

\* the collection holds ungraded Prediction documents of session s1
StoredPredictions ==
    UNION {[1..n -> {Prediction(-60 * 1000, "s1", d, 60, "pattern_matching") :
                        d \in {"up", "down"}}] : n \in 1..MaxStored}

InitVerify ==
    /\ now = 0
    /\ quotexLoggedIn = TRUE
    /\ sessions = <<>>
    /\ validationResult = NoValidation
    /\ response = Idle
    /\ candles = <<>>
    /\ predictions \in StoredPredictions
    /\ CaptureIdle
    /\ call = NoCall
    /\ RoutesIdle

NextVerify == VerifyClock \/ VerifyPrediction \/ VerifyPredictionMethod

SpecVerify == InitVerify /\ [][NextVerify]_vars

-----------------------------------------------------------------------------
(* Accuracy statistics of GET /api/data/prediction *)

MaxGraded == 2         \* predictions graded correct, and predictions graded wrong
MaxUngraded == 10      \* ungraded predictions in the collection

RECURSIVE Rep(_, _)
Rep(x, n) == IF n = 0 THEN <<>> ELSE <<x>> \o Rep(x, n - 1)

\* predictions "up" of session s1, one per minute, the last one 20 seconds
\* before time 0; grades says of each whether it is ungraded or was graded
\* correct or wrong by verifyPrediction
PredictionsOf(grades) ==
    [i \in 1..Len(grades) |->
        LET p == Prediction((i - Len(grades)) * 60 * 1000 - 20 * 1000, "s1", "up",
                            60, "pattern_matching")
        IN IF grades[i] = "ungraded" THEN p
           ELSE verifyPrediction(p, Candle(p.timestamp + 60 * 1000, "s1",
                                           IF grades[i] = "correct" THEN "up" ELSE "down",
                                           "tesseract"))]

\* the collections the statistics are read from: graded predictions, some
\* of them correct, older or newer than the ungraded ones
StatsStores ==
    {PredictionsOf(Rep("correct", c) \o Rep("wrong", w) \o Rep("ungraded", u)) :
        c \in 0..MaxGraded, w \in 0..MaxGraded, u \in 0..MaxUngraded}
    \cup
    {PredictionsOf(Rep("ungraded", u) \o Rep("wrong", w) \o Rep("correct", c)) :
        c \in 0..MaxGraded, w \in 0..MaxGraded, u \in 0..MaxUngraded}

\* the session cache holds a validated record of s1 that is fresh
FreshRecord ==
    [isValidated |-> TRUE, status |-> "active", lastValidationCheck |-> 0,
     lastActivity |-> 0, expiresAt |-> ExpiryMs,
     validationAttempts |-> 0, validationHistory |-> <<>>]

InitStats ==
    /\ now = 0
    /\ quotexLoggedIn \in BOOLEAN
    /\ sessions = [x \in {"s1"} |-> FreshRecord]
    /\ validationResult = NoValidation
    /\ response = Idle
    /\ candles = <<>>
    /\ predictions \in StatsStores
    /\ CaptureIdle
    /\ call = NoCall
    /\ RoutesIdle

NextStats == GetPrediction \/ SessionClock \/ PlatformLogin

SpecStats == InitStats /\ [][NextStats]_vars

-----------------------------------------------------------------------------
(* Direct calls of the prediction engine and of extractCandleData on a      *)
(* stored history                                                          *)

MaxPairs == 22         \* (up, down) pairs a stored history starts with
MaxBlocks == 8         \* blocks ending in (up, up) that follow the pairs

RECURSIVE Pairs(_)
Pairs(k) == IF k = 0 THEN <<>> ELSE <<"up", "down">> \o Pairs(k - 1)

\* m blocks; after at least two pairs each block completes one window
\* (up, down, up, down, up) that is followed by up
RECURSIVE UpBlocks(_)
UpBlocks(m) ==
    IF m = 0 THEN <<>>
    ELSE IF m = 1 THEN <<"up", "up">>
    ELSE UpBlocks(m - 1) \o <<"down", "up", "down", "up", "up">>

\* candles of session s1 with these directions, stored by an earlier run,
\* one per minute, the last one 20 seconds before time 0
HistoryOf(dirs) ==
    [i \in 1..Len(dirs) |-> Candle((i - Len(dirs)) * 60 * 1000 - 20 * 1000, "s1",
                                   dirs[i], "tesseract")]

\* the histories the engine is called on: in a history of k pairs and m
\* blocks the window (up, down, up, down, up) is followed k - 2 times by
\* down and then m times by up
EngineHistories ==
    {HistoryOf(Pairs(k) \o UpBlocks(m)) : k \in 0..MaxPairs, m \in 0..MaxBlocks}

\* the directions of five candles
Windows == [1..5 -> {"up", "down"}]

\* candles with these directions, one per minute from time 0 on
WindowCandles(dirs) ==
    [i \in 1..Len(dirs) |-> Candle((i - 1) * 60 * 1000, "s1", dirs[i], "tesseract")]

\* arguments of generatePrediction: 9 or 10 candles, of which the first
\* five take every combination of directions
RecentWindows ==
    {WindowCandles(w \o rest) :
        w \in Windows,
        rest \in {<<"up", "down", "up", "down">>, <<"up", "down", "up", "down", "up">>}}

\* the results predictFromPatterns can return, and null
PatternPreds ==
    {{}} \cup {{[direction |-> d, confidence |-> c, algorithmUsed |-> "pattern_matching"]} :
                  d \in {"up", "down"}, c \in 50..95}

\* the results predictFromTrend can return, its catch block included
TrendPreds ==
    {[direction |-> d, confidence |-> 55 + 5 * n, algorithmUsed |-> "trend_analysis"] :
        d \in {"up", "down"}, n \in 0..8}
    \cup {[direction |-> d, confidence |-> 50, algorithmUsed |-> "random"] :
              d \in {"up", "down"}}

InitEngine ==
    /\ now = 0
    /\ quotexLoggedIn = TRUE
    /\ sessions = <<>>
    /\ validationResult = NoValidation
    /\ response = Idle
    /\ candles \in EngineHistories
    /\ predictions = <<>>
    /\ CaptureIdle
    /\ call = NoCall
    /\ RoutesIdle

CallCombinePredictions ==
    /\ call.name = "none"
    /\ \E patternPred \in PatternPreds, trendPred \in TrendPreds :
        /\ call' = [name |-> "combinePredictions", recentCandles |-> <<>>,
                    patternPred |-> patternPred, trendPred |-> {trendPred},
                    result |-> {combinePredictions(patternPred, trendPred)}]
        /\ UNCHANGED <<routeVars, now, quotexLoggedIn, sessionVars, candles, predictions,
                       captureVars>>

CallPredictFromPatterns ==
    /\ call.name = "none"
    /\ \E w \in Windows :
        /\ call' = [name |-> "predictFromPatterns",
                    recentCandles |-> WindowCandles(w),
                    patternPred |-> {}, trendPred |-> {},
                    result |-> predictFromPatterns(WindowCandles(w))]
        /\ UNCHANGED <<routeVars, now, quotexLoggedIn, sessionVars, candles, predictions,
                       captureVars>>

CallPredictFromTrend ==
    /\ call.name = "none"
    /\ \E w \in Windows :
        /\ call' = [name |-> "predictFromTrend",
                    recentCandles |-> WindowCandles(w),
                    patternPred |-> {}, trendPred |-> {},
                    result |-> {predictFromTrend(WindowCandles(w))}]
        /\ UNCHANGED <<routeVars, now, quotexLoggedIn, sessionVars, candles, predictions,
                       captureVars>>

\* generatePrediction; patternPred and trendPred are what it hands to
\* combinePredictions
CallGeneratePrediction ==
    /\ call.name = "none"
    /\ \E recentCandles \in RecentWindows :
        /\ call' = [name |-> "generatePrediction",
                    recentCandles |-> recentCandles,
                    patternPred |->
                        IF Len(recentCandles) < minCandlesRequired THEN {}
                        ELSE predictFromPatterns(last5Candles(recentCandles)),
                    trendPred |->
                        IF Len(recentCandles) < minCandlesRequired THEN {}
                        ELSE {predictFromTrend(last5Candles(recentCandles))},
                    result |-> generatePrediction(recentCandles)]
        /\ UNCHANGED <<routeVars, now, quotexLoggedIn, sessionVars, candles, predictions,
                       captureVars>>

\* extractCandleData at time now on a service whose sessionId is s1
CallExtractCandleData ==
    /\ call.name = "none"
    /\ \E analysisOk \in BOOLEAN, dir \in AnalysisDirections, closeAboveOpen \in BOOLEAN :
        /\ call' = [name |-> "extractCandleData", recentCandles |-> <<>>,
                    patternPred |-> {}, trendPred |-> {},
                    result |-> {extractCandleData(now, "s1", analysisOk, dir,
                                                  closeAboveOpen)}]
        /\ UNCHANGED <<routeVars, now, quotexLoggedIn, sessionVars, candles, predictions,
                       captureVars>>

\* the caller has the result and may call again
CallReturn ==
    /\ call.name # "none"
    /\ call' = NoCall
    /\ UNCHANGED <<routeVars, now, quotexLoggedIn, sessionVars, candles, predictions,
                   captureVars>>

NextEngine ==
    \/ CallCombinePredictions
    \/ CallPredictFromPatterns
    \/ CallPredictFromTrend
    \/ CallGeneratePrediction
    \/ CallExtractCandleData
    \/ CallReturn

SpecEngine == InitEngine /\ [][NextEngine]_vars

-----------------------------------------------------------------------------
(* Claims about the session cache and the data endpoints *)

\* this step is a validateQuotexSession call that answered isLoggedIn = true
\* without running the verifier
AnsweredFromCache ==
    /\ validationResult'.isLoggedIn
    /\ ~validationResult'.verifierCalled
    /\ sessions' # sessions

\* C1 as stated: validateQuotexSession answers isLoggedIn = true without the
\* verifier only when the stored record is active, validated, unexpired and
\* was validated less than 2 hours ago.
C1_Original ==
    [][AnsweredFromCache =>
          \A sid \in DOMAIN sessions' :
              sessions'[sid] # sessions[sid] =>
                  /\ sessions[sid].status = "active"
                  /\ sessions[sid].isValidated
                  /\ sessions[sid].expiresAt > now
                  /\ now - sessions[sid].lastValidationCheck < maxAge]_vars

\* C1 amended: validateQuotexSession answers isLoggedIn = true without the
\* verifier only when a record for the sessionId is stored and is active,
\* validated, unexpired and was validated at most 2 hours ago; in every other
\* case the verifier runs.
C1_CacheHitOnlyWhenFresh ==
    [][AnsweredFromCache =>
          \A sid \in DOMAIN sessions' :
              sessions'[sid] # sessions[sid] =>
                  /\ sid \in DOMAIN sessions
                  /\ sessions[sid].status = "active"
                  /\ sessions[sid].isValidated
                  /\ sessions[sid].expiresAt > now
                  /\ now - sessions[sid].lastValidationCheck <= maxAge]_vars

\* a cached answer was given for a record validated exactly 2 hours before
C1_Witness ==
    /\ validationResult.isLoggedIn
    /\ ~validationResult.verifierCalled
    /\ validationResult.timestamp - validationResult.lastValidation = maxAge

\* C2 as stated: a data endpoint that answers for a missing sessionId or for
\* a session that is not logged in answers 401 and returns no record.
C2_Original ==
    (response.endpoint \in {"candles", "prediction", "predictions"}
        /\ ~response.sessionLoggedIn)
    => (response.status = 401 /\ response.count = 0)

\* this step is a validateQuotexSession call whose verifier run succeeded
SlowPathSucceeded ==
    /\ validationResult'.verifierCalled
    /\ validationResult'.isLoggedIn
    /\ sessions' # sessions

\* C15 as stated: after a successful slow-path validation the record of the
\* sessionId has status active, isValidated true, lastValidationCheck = now,
\* one more validationHistory entry and expiresAt = now + 24h, whether the
\* record is new or existed before.
C15_Original ==
    [][SlowPathSucceeded =>
          \A sid \in DOMAIN sessions' :
              (sid \notin DOMAIN sessions \/ sessions'[sid] # sessions[sid]) =>
                  /\ sessions'[sid].status = "active"
                  /\ sessions'[sid].isValidated
                  /\ sessions'[sid].lastValidationCheck = now
                  /\ Len(sessions'[sid].validationHistory) =
                         (IF sid \in DOMAIN sessions
                          THEN Len(sessions[sid].validationHistory) ELSE 0) + 1
                  /\ sessions'[sid].expiresAt = now + ExpiryMs]_vars

\* this step is a validateQuotexSession call whose verifier run failed
SlowPathFailed ==
    /\ validationResult' # validationResult
    /\ validationResult'.verifierCalled
    /\ ~validationResult'.isLoggedIn

\* C16 as stated: when the slow-path verification fails, the stored record
\* of the sessionId is set to status invalid and a failure entry is appended
\* to its validationHistory; a record that was active is no longer active.
C16_Original ==
    [][SlowPathFailed =>
          \A sid \in SessionIds \cap DOMAIN sessions :
              /\ sessions'[sid].status = "invalid"
              /\ Len(sessions'[sid].validationHistory) =
                     Len(sessions[sid].validationHistory) + 1]_vars

\* this step is an invalidate-session request for a stored record
InvalidateCalled ==
    /\ response' # response
    /\ response'.endpoint = "invalidate-session"
    /\ response'.sessionId \in DOMAIN sessions

\* C17 as stated: invalidate on an existing record succeeds and leaves it
\* with status invalid, isValidated false and one more history entry (so
\* that later validateQuotexSession calls run the verifier).
C17_Original ==
    [][InvalidateCalled =>
          /\ response'.status = 200
          /\ sessions'[response'.sessionId].status = "invalid"
          /\ ~sessions'[response'.sessionId].isValidated
          /\ Len(sessions'[response'.sessionId].validationHistory) =
                 Len(sessions[response'.sessionId].validationHistory) + 1]_vars

-----------------------------------------------------------------------------
(* Claims about the capture scheduler *)

\* C3 as stated: at most one captureAndProcess cycle of a service is in
\* progress at any time.
C3_Original == InFlight <= 1

\* C4 as stated: once stopCapture has returned (and startCapture was not
\* called again) no interval timer is scheduled and no cycle is in progress.
C4_Original == stopped => (timers = <<>> /\ cycles = EmptyBag)

\* this step is a captureAndProcess call returning null from its catch block
CycleFailed ==
    /\ BagCardinality(cycles') < BagCardinality(cycles)
    /\ lastResult' \in Failures

\* C5: an exception in a capture cycle is caught inside the cycle: the step
\* in which the cycle fails leaves isCapturing as it was, cancels no interval
\* timer and changes no timer, so a tick that was due runs a cycle as before.
C5_FailureKeepsLoop ==
    [][CycleFailed =>
          /\ isCapturing' = isCapturing
          /\ \A id \in DOMAIN timers :
                 id \in DOMAIN timers' /\ timers'[id] = timers[id]
          /\ PassesGuard(isCapturing)' = PassesGuard(isCapturing)]_vars

\* a cycle has failed, the loop is capturing with its interval scheduled and
\* a cycle is in progress
C5_Witness ==
    /\ lastResult = "failed"
    /\ isCapturing
    /\ captureInterval \in DOMAIN timers
    /\ InFlight > 0

\* validateQuotexSession would answer isLoggedIn = true for the service's session
SessionUsable ==
    /\ svcSessionId # NoSessionId
    /\ CacheHit(svcSessionId) \/ quotexLoggedIn

\* C6 as stated: a capture cycle goes past its entry only when the session
\* of the service is usable.
C6_Original ==
    [][BagCardinality(cycles') > BagCardinality(cycles) => SessionUsable]_vars

\* this step ends the save() of a cycle whose observation has no stored
\* observation of its tradingPair and sessionId within 30 seconds
SaveOfNewEnds ==
    \E c \in BagToSet(cycles) :
        /\ c.pc = "insert"
        /\ CopiesIn(c, cycles') < CopiesIn(c, cycles)
        /\ ~recentDuplicate(c.timestamp, c.sessionId)

\* C7 as stated: an observation that has no stored observation of the same
\* tradingPair and sessionId within 30 seconds of its timestamp (35 seconds
\* after the stored one) is accepted and stored.
C7_Original == [][SaveOfNewEnds => Len(candles') = Len(candles) + 1]_vars

\* documents of a session in a collection
OfSession(seq, sid) == CountFound(seq, {sid})

C9_Original ==
    [][SaveOfNewEnds =>
          \A i \in DOMAIN predictions :
              predictions[i].sessionId = svcSessionId =>
                  predictions'[i].actualResult # NotVerified]_vars

-----------------------------------------------------------------------------
(* Claims about the verification of predictions *)

\* C10 as stated: actualResult is set at most once; verification of a
\* graded Prediction leaves its actualResult (direction, correct,
\* verifiedAt) unchanged.
C10_Original ==
    [][\A i \in DOMAIN predictions :
          predictions[i].actualResult # NotVerified =>
              predictions'[i].actualResult = predictions[i].actualResult]_vars

-----------------------------------------------------------------------------
(* Claims about the prediction engine *)

\* the positions of the stored history at which a window with these
\* directions starts that has a candle after it
MatchStarts(dirs) ==
    {i \in 1..(Len(candles) - Len(dirs)) :
        \A j \in 1..Len(dirs) : candles[i + j - 1].direction = dirs[j]}

\* how many of these windows are followed by a candle of direction d
OutcomesOf(dirs, d) ==
    Cardinality({i \in MatchStarts(dirs) : candles[i + Len(dirs)].direction = d})

\* the signature of the example
UpDownSignature == <<"up", "down", "up", "down", "up">>

\* C11: combinePredictions follows the fusion rule, called directly and by
\* generatePrediction: with a pattern result it emits the pattern direction,
\* with confidence min(95, patternConfidence + 10) and the confirmed tag
\* when the trend agrees, and with confidence max(50, patternConfidence - 15)
\* and the conflict tag when it does not; without a pattern result it emits
\* the trend result unchanged.  With outcomes 8 up / 4 down for the signature
\* (up, down, up, down, up) the prediction is up with a pattern tag.
C11_FusionRule ==
    /\ (call.name \in {"combinePredictions", "generatePrediction"} /\ call.result # {}) =>
           \A r \in call.result, t \in call.trendPred :
               IF call.patternPred = {} THEN r = t
               ELSE \A p \in call.patternPred :
                        /\ r.direction = p.direction
                        /\ IF t.direction = p.direction
                           THEN /\ r.confidence = Min2(95, p.confidence + 10)
                                /\ r.algorithmUsed = "pattern_matching_trend_confirmed"
                           ELSE /\ r.confidence = Max2(50, p.confidence - 15)
                                /\ r.algorithmUsed = "pattern_matching_trend_conflict"
    /\ (/\ call.name = "generatePrediction"
        /\ Len(call.recentCandles) >= minCandlesRequired
        /\ Directions(last5Candles(call.recentCandles)) = UpDownSignature
        /\ OutcomesOf(UpDownSignature, "up") = 8
        /\ OutcomesOf(UpDownSignature, "down") = 4) =>
           \A r \in call.result :
               /\ r.direction = "up"
               /\ r.algorithmUsed \in {"pattern_matching_trend_confirmed",
                                       "pattern_matching_trend_conflict"}

\* generatePrediction has answered for the signature (up, down, up, down, up)
\* on a history with outcomes 8 up / 4 down: up, confirmed by the trend, with
\* confidence 67 + 10
C11_Witness ==
    /\ call.name = "generatePrediction"
    /\ Directions(last5Candles(call.recentCandles)) = UpDownSignature
    /\ OutcomesOf(UpDownSignature, "up") = 8
    /\ OutcomesOf(UpDownSignature, "down") = 4
    /\ \E r \in call.result :
           /\ r.direction = "up"
           /\ r.confidence = 77
           /\ r.algorithmUsed = "pattern_matching_trend_confirmed"

\* C12 as stated: the result of predictFromPatterns is computed from the
\* outcomes of every exact match of the signature in the scanned history:
\* up iff upCount > downCount, confidence min(95, round(winningCount /
\* totalOutcomes * 100)) with totalOutcomes counting all matches, and no
\* result iff there is no match.
C12_Original ==
    call.name = "predictFromPatterns" =>
        LET signature == Directions(call.recentCandles)
            upCount == OutcomesOf(signature, "up")
            downCount == OutcomesOf(signature, "down")
        IN IF upCount + downCount = 0 THEN call.result = {}
           ELSE /\ call.result # {}
                /\ \A r \in call.result :
                       /\ r.direction = IF upCount > downCount THEN "up" ELSE "down"
                       /\ r.confidence =
                              Min2(95, RoundPercent(Max2(upCount, downCount),
                                                    upCount + downCount))

\* the length of the run of equal directions that ends at the last one
RunLength(dirs) ==
    CHOOSE n \in 1..Len(dirs) :
        /\ \A j \in (Len(dirs) - n + 1)..Len(dirs) : dirs[j] = dirs[Len(dirs)]
        /\ n = Len(dirs) \/ dirs[Len(dirs) - n] # dirs[Len(dirs)]

\* C13: for every sequence of 5 directions, with streak the length of the
\* run of equal directions ending at the last one, predictFromTrend predicts
\* the opposite of the last direction with confidence min(95, 60 + 5 * streak)
\* when streak >= 3 (three consecutive ups give down with confidence >= 75),
\* and otherwise the majority direction with confidence
\* min(95, 55 + 5 * |upCount - downCount|).
C13_TrendRule ==
    call.name = "predictFromTrend" =>
        LET dirs == Directions(call.recentCandles)
            last == dirs[Len(dirs)]
            streak == RunLength(dirs)
            upCount == Cardinality({j \in DOMAIN dirs : dirs[j] = "up"})
            downCount == Cardinality({j \in DOMAIN dirs : dirs[j] = "down"})
        IN \A r \in call.result :
               /\ streak >= 3 =>
                      /\ r.direction # last
                      /\ r.direction \in {"up", "down"}
                      /\ r.confidence = Min2(95, 60 + 5 * streak)
                      /\ last = "up" => (r.direction = "down" /\ r.confidence >= 75)
               /\ streak < 3 =>
                      /\ upCount > downCount => r.direction = "up"
                      /\ downCount > upCount => r.direction = "down"
                      /\ r.confidence =
                             Min2(95, 55 + 5 * Max2(upCount - downCount,
                                                    downCount - upCount))

\* predictFromTrend has answered down with confidence 75 for a window that
\* ends in exactly three ups
C13_Witness ==
    /\ call.name = "predictFromTrend"
    /\ Directions(call.recentCandles) = <<"up", "down", "up", "up", "up">>
    /\ \E r \in call.result : r.direction = "down" /\ r.confidence = 75

\* C14: every prediction generatePrediction returns, for every recent
\* window and every history, has an integer confidence within 50..95,
\* whichever of the three fusion cases produced it.
C14_ConfidenceRange ==
    call.name = "generatePrediction" =>
        \A r \in call.result :
            /\ r.confidence \in 50..95
            /\ r.algorithmUsed \in {"pattern_matching_trend_confirmed",
                                    "pattern_matching_trend_conflict",
                                    "trend_analysis"}

\* generatePrediction has returned a prediction of the conflict case whose
\* confidence is the floor 50: the pattern tally was a tie
C14_Witness ==
    /\ call.name = "generatePrediction"
    /\ \E p \in call.patternPred : p.confidence = 50
    /\ \E r \in call.result :
           /\ r.algorithmUsed = "pattern_matching_trend_conflict"
           /\ r.confidence = 50

-----------------------------------------------------------------------------
(* Claims about the observations a capture cycle builds *)

\* C18 as stated, for the observation extractCandleData returns, which is
\* the one the cycle hands to save(): its direction is up exactly when
\* close > open, whether the direction came from the colour analysis, from
\* the trading signal or from the fallback generator.
C18_Original ==
    call.name = "extractCandleData" =>
        \A candleData \in call.result :
            (candleData.direction = "up") <=> candleData.closeAboveOpen

\* this step is the end of a capture cycle whose visual analysis failed and
\* whose fallback observation went to save()
FallbackCycleEnds ==
    /\ BagCardinality(cycles') < BagCardinality(cycles)
    /\ lastResult' = "failed_fallback"

-----------------------------------------------------------------------------
(* Claims about the accuracy statistics *)

\* the graded predictions of a session
Verified(sid) ==
    {i \in DOMAIN predictions : /\ predictions[i].sessionId = sid
                                /\ predictions[i].actualResult # NotVerified}

\* the 10 most recent of them
RecentVerified(sid) ==
    {i \in Verified(sid) :
        Cardinality({j \in Verified(sid) :
                        predictions[j].timestamp > predictions[i].timestamp})
            < StatsLimit}

\* C20 as stated: the accuracy reported with the latest prediction is
\* correctCount / verifiedCount over the 10 most recent verified predictions
\* of the session (fewer if fewer are verified), computed from the stored
\* records; unverified predictions do not shrink or displace that window.
C20_Original ==
    (response.endpoint = "prediction" /\ response.status = 200 /\ response.count = 1) =>
        LET window == RecentVerified(response.sessionId)
            correct == {i \in window : predictions[i].actualResult.correct}
        IN /\ response.stats.verifiedPredictions = Cardinality(window)
           /\ window # {} =>
                  response.stats.accuracy =
                      RoundPercent(Cardinality(correct), Cardinality(window))

-----------------------------------------------------------------------------
(* Duplicate prevention of saveCandleData under overlapping cycles *)

\* two observations of one tradingPair and session that the duplicate query
\* of saveCandleData would find for each other
TooClose(a, b) ==
    /\ b.timestamp - a.timestamp <= DuplicateWindowMs
    /\ a.timestamp - b.timestamp <= DuplicateWindowMs
    /\ a.tradingPair = b.tradingPair
    /\ a.sessionId = b.sessionId

-----------------------------------------------------------------------------
(* Schema validation of the records a cycle builds *)

\* C27 (as the claim states it): no record a capture cycle builds is
\* rejected by the schema of its store: every observation a cycle is about
\* to save has an extractionMethod the CandleData schema admits, and every
\* prediction a cycle generates has an algorithmUsed the Prediction schema
\* admits, so both are persisted.
C27_Original ==
    \A c \in BagToSet(cycles) :
        /\ c.pc = "insert" =>
               \A analysisOk \in BOOLEAN :
                   \A candleData \in BuiltCandles(c.timestamp, c.sessionId, analysisOk) :
                       schemaAccepts(candleData)
        /\ c.pc = "predict" =>
               \A pred \in generatePrediction(getRecentCandles) :
                   pred.algorithmUsed \in AlgorithmEnum

-----------------------------------------------------------------------------
(* The window generatePrediction reads in a capture cycle *)

\* the directions generatePrediction hands to predictFromPatterns and
\* predictFromTrend
signature(recentCandles) == Directions(last5Candles(recentCandles))

\* C25 (as the claim states it): in a capture cycle the pattern signature
\* of generatePrediction is the sequence of directions of the 5 most recent
\* observations of the session, oldest first, so that it ends with the
\* direction of the newest observation.
C25_Original ==
    \A c \in BagToSet(cycles) :
        (c.pc = "predict" /\ Len(getRecentCandles) >= minCandlesRequired) =>
            signature(getRecentCandles) = Directions(LastN(getRecentCandles, 5))

-----------------------------------------------------------------------------
(* The history findSimilarPatterns scans in a capture cycle *)

\* the observations of the tradingPair that are older than every
\* observation of the window, oldest first
Preceding(window) ==
    SortByTimestamp(candles,
        {i \in DOMAIN candles :
            /\ candles[i].tradingPair = TradingPair
            /\ \A j \in DOMAIN window : candles[i].timestamp < window[j].timestamp})

\* C26 (as the claim states it): the history findSimilarPatterns scans for
\* the window of a capture cycle is the most recent (at most 1000)
\* observations of the tradingPair that precede the window; it contains
\* none of the window's own observations, and beyond 1000 the oldest
\* observations are the ones left out.
C26_Original ==
    \A c \in BagToSet(cycles) :
        (c.pc = "predict" /\ Len(getRecentCandles) >= minCandlesRequired) =>
            LET window == last5Candles(getRecentCandles)
                history == historicalCandles(window)
            IN /\ \A i \in DOMAIN history, j \in DOMAIN window :
                      history[i] # window[j]
               /\ history = LastN(Preceding(window), HistoryLimit)

-----------------------------------------------------------------------------
(* Claims about the session store *)

\* the validationHistory stored for a sessionId; none without a record
historyOf(store, sid) ==
    IF sid \in DOMAIN store THEN store[sid].validationHistory ELSE <<>>

\* POST /store-session-cookies was answered for a sessionId
StoreCookiesCalled ==
    /\ response' # response
    /\ response'.endpoint = "store-session-cookies"
    /\ response'.sessionId # NoSessionId

\* C28 (as the claim states it): validationHistory is append-only under
\* storeSessionCookies, the slow-path upsert and invalidate on one
\* sessionId: each of them adds exactly its own entry and removes or
\* overwrites no earlier entry.
C28_Original ==
    [][(StoreCookiesCalled \/ SlowPathSucceeded \/ InvalidateCalled) =>
          \A sid \in SessionIds :
              /\ Len(historyOf(sessions', sid)) = Len(historyOf(sessions, sid)) + 1
              /\ SubSeq(historyOf(sessions', sid), 1, Len(historyOf(sessions, sid)))
                     = historyOf(sessions, sid)]_vars

\* C29 (as the claim states it): in every reachable state of the session
\* store every record with status active has isValidated true and
\* expiresAt > now.
C29_Original ==
    \A sid \in DOMAIN sessions :
        sessions[sid].status = "active" =>
            /\ sessions[sid].isValidated
            /\ sessions[sid].expiresAt > now

\* cleanupExpiredSessions ran: the route answered, or records were deleted
CleanupCalled ==
    \/ response' # response /\ response'.endpoint = "cleanup-sessions"
    \/ DOMAIN sessions' # DOMAIN sessions

\* C30: cleanupExpiredSessions deletes exactly the records with
\* expiresAt < now, or with lastActivity more than 7 days old and a status
\* other than active; it never deletes an active, unexpired record and it
\* leaves every record it keeps unchanged.
C30_ReapsExactly ==
    [][CleanupCalled =>
          /\ \A sid \in DOMAIN sessions :
                 sid \notin DOMAIN sessions' <=>
                     \/ sessions[sid].expiresAt < now
                     \/ /\ sessions[sid].lastActivity < now - SevenDaysMs
                        /\ sessions[sid].status # "active"
          /\ \A sid \in DOMAIN sessions' :
                 sid \in DOMAIN sessions /\ sessions'[sid] = sessions[sid]]_vars

\* a cleanup deleted an idle record that was not expired, and kept beside it
\* an active record that was as idle
C30_Witness ==
    /\ response.endpoint = "cleanup-sessions"
    /\ response.count = 1
    /\ \E sid \in DOMAIN sessions :
           /\ sessions[sid].status = "active"
           /\ sessions[sid].lastActivity < now - SevenDaysMs
           /\ sessions[sid].expiresAt >= now

-----------------------------------------------------------------------------
(* Claims about the capture routes and the status of the service *)

\* the fields the status is said to expose
StatusFields == {"running", "lastCycleAt", "lastError", "degraded"}

\* C21 (as the claim states it): once three cycles of an instance in a row
\* have failed, its status exposes running, lastCycleAt, lastError and
\* degraded and reports degraded = true; after fewer than three failures in
\* a row it does not report degraded.
C21_Original ==
    \A id \in DOMAIN services :
        /\ services[id].failedInARow >= 3 =>
               /\ StatusFields \subseteq DOMAIN getStatus(services[id])
               /\ getStatus(services[id]).degraded
        /\ services[id].failedInARow < 3 =>
               ~("degraded" \in DOMAIN getStatus(services[id])
                   /\ getStatus(services[id]).degraded)

\* a /start-capture handler called startCapture on an instance whose loop
\* was active
StartCaptureFoundLoop ==
    /\ \E i \in 1..MaxRequests :
           requests[i].pc = "navigate" /\ requests'[i].pc = "idle"
    /\ response'.endpoint = "start-capture"
    /\ response'.startCapture = "already_running"

\* C22 (as the claim states it): startCapture on an instance whose loop is
\* active fails with an error, and it leaves the loop as it was: no second
\* interval timer and no extra cycle.
C22_Original ==
    [][StartCaptureFoundLoop =>
          /\ response'.status # 200
          /\ services' = services]_vars

\* an instance whose interval timer fires and whose cycles pass the guard
ActiveLoop(svc) == svc.isCapturing /\ svc.liveTimers > 0 /\ svc.page

\* C24 (as the claim states it): once the start-capture and stop-capture
\* requests have been answered, at most one instance has an active capture
\* loop and it is the instance the global captureService holds.
C24_Original ==
    (\A i \in 1..MaxRequests : requests[i].pc = "idle") =>
        /\ Cardinality({id \in DOMAIN services : ActiveLoop(services[id])}) <= 1
        /\ \A id \in DOMAIN services :
               ActiveLoop(services[id]) => id = captureService

====
